---- MODULE Spec2Model ----
(***************************************************************************)
(* Model of azure.cli.core.auth.identity: the MsalSecretStore (the Secret  *)
(* Store of service-principal credentials), its backing artifact shared by *)
(* several CLI processes, the CrossPlatLock taken around each backend      *)
(* access, and the Identity call sites that feed the store.                *)
(***************************************************************************)
EXTENDS Integers, Sequences, FiniteSets, TLC

(* ------------------------------ bounds --------------------------------- *)

\* Number of Secret Store operations started, over all processes (a login
\* the broker refuses never reaches the store).
MaxOps == 4

\* Number of entries in a legacy token cache.
MaxEntries == 2

(* ------------------------------ inputs --------------------------------- *)

Procs == {"p1", "p2"}
Principals == {"sp1", "sp2"}

\* (client_id, tenant_id, secret) of the service-principal logins
LoginInputs == {<<"sp1", "t1", "abc">>, <<"sp1", "t1", "xyz">>, <<"sp2", "t1", "abc">>}
\* (client_id, tenant_id, certificate_file) of the certificate logins
CertInputs == {<<"sp1", "t2", "sp.pem">>}
\* (servicePrincipalId, servicePrincipalTenant, accessToken) in the legacy cache
LegacyInputs == {<<"sp1", "t1", "abc">>}
\* (sp_id, tenant) asked of retrieve; "t3" is a tenant nothing is saved under
RetrieveInputs == {<<"sp1", "t1">>, <<"sp1", "t3">>}

\* Python's None (dict.get default)
None == "None"

(* --------------------------- module constants -------------------------- *)

SERVICE_PRINCIPAL_ID == "servicePrincipalId"
SERVICE_PRINCIPAL_TENANT == "servicePrincipalTenant"
ACCESS_TOKEN == "accessToken"
SERVICE_PRINCIPAL_SECRET == "secret"
SERVICE_PRINCIPAL_CERT_FILE == "certificateFile"
SERVICE_PRINCIPAL_CERT_THUMBPRINT == "thumbprint"

(* ------------------------- Python value helpers ------------------------ *)

\* dict.get(key, None)
Get(x, key) == IF key \in DOMAIN x THEN x[key] ELSE None

\* truthiness of a str-or-None value
Truthy(v) == v # None /\ v # ""

\* a or b
Or(a, b) == IF Truthy(a) THEN a ELSE b

\* list.remove(v): drops the first element equal to v
RECURSIVE ListRemove(_, _)
ListRemove_keeps(l, v) == l
ListRemove(l, v) ==
    IF l = <<>> THEN <<>>
    ELSE IF Head(l) = v THEN Tail(l)
    ELSE <<Head(l)>> \o ListRemove(Tail(l), v)

\* v in l
In(v, l) == \E k \in 1..Len(l) : l[k] = v

\* json.dumps of a list of flat str->str dicts: an array of objects, each
\* object its set of "key": "value" members
json_dumps(creds) ==
    [k \in 1..Len(creds) |-> {<<f, creds[k][f]>> : f \in DOMAIN creds[k]}]

\* json.loads of such an array: back to a list of dicts
json_loads(data) ==
    [k \in 1..Len(data) |->
        [f \in {m[1] : m \in data[k]} |-> (CHOOSE m \in data[k] : m[1] = f)[2]]]

(* ------------------------- ServicePrincipalAuth ------------------------ *)

\* __init__: raises CLIError without secret or certificate; keeps the
\* certificate file when given, the secret otherwise
ServicePrincipalAuth(client_id, tenant_id, secret, certificate_file) ==
    IF ~(Truthy(secret) \/ Truthy(certificate_file))
    THEN [raised |-> "CLIError"]
    ELSE IF Truthy(certificate_file)
    THEN [raised |-> None, client_id |-> client_id, tenant_id |-> tenant_id,
          certificate_file |-> certificate_file]
    ELSE [raised |-> None, client_id |-> client_id, tenant_id |-> tenant_id,
          secret |-> secret]

get_entry_to_persist(sp_auth) ==
    LET entry == (SERVICE_PRINCIPAL_ID :> sp_auth.client_id)
                 @@ (SERVICE_PRINCIPAL_TENANT :> sp_auth.tenant_id)
    IN  IF "secret" \in DOMAIN sp_auth
        THEN entry @@ (SERVICE_PRINCIPAL_SECRET :> sp_auth.secret)
        ELSE entry @@ (SERVICE_PRINCIPAL_CERT_FILE :> sp_auth.certificate_file)

\* the ADAL-era entry shape that migrate_tokens reads from the legacy cache
get_entry_to_persist_legacy(sp_auth) ==
    LET entry == (SERVICE_PRINCIPAL_ID :> sp_auth.client_id)
                 @@ (SERVICE_PRINCIPAL_TENANT :> sp_auth.tenant_id)
    IN  IF "secret" \in DOMAIN sp_auth
        THEN entry @@ (ACCESS_TOKEN :> sp_auth.secret)
        ELSE entry @@ (SERVICE_PRINCIPAL_CERT_FILE :> sp_auth.certificate_file)
                   @@ (SERVICE_PRINCIPAL_CERT_THUMBPRINT :> "sha1")

\* service-principal entries found in a legacy token cache
LegacyEntries ==
    {get_entry_to_persist_legacy(ServicePrincipalAuth(a[1], a[2], a[3], None)) :
        a \in LegacyInputs}

(* ----------------------- MsalSecretStore: pure parts ------------------- *)

\* _load_cached_creds, the effect on self._service_principal_creds:
\* json.loads(persistence.load()), or the list as it was on PersistenceNotFound
load_cached_creds(file, creds) ==
    IF file.exists THEN json_loads(file.data) ELSE creds

\* matched = [x for x in creds if sp_id == x[_SERVICE_PRINCIPAL_ID]]
matched_by_id(creds, sp_id) ==
    SelectSeq(creds, LAMBDA x : sp_id = x[SERVICE_PRINCIPAL_ID])

\* the record retrieve settles on: the first exact-tenant match, else matched[0]
select_cred_last(matched, tenant) == matched[Len(matched)]
select_cred(matched, tenant) ==
    LET matched_with_tenant ==
            SelectSeq(matched, LAMBDA x : tenant = x[SERVICE_PRINCIPAL_TENANT])
    IN  IF matched_with_tenant # <<>> THEN matched_with_tenant[1] ELSE matched[1]

\* retrieve_secret_of_service_principal after the load
retrieve_secret(creds, sp_id, tenant) ==
    LET matched == matched_by_id(creds, sp_id)
        cred == select_cred(matched, tenant)
    IN  IF matched = <<>>
        THEN [status |-> "CLIError", value |-> None, warned |-> FALSE]
        ELSE [status |-> "ok",
              value |-> Or(Get(cred, SERVICE_PRINCIPAL_SECRET),
                           Get(cred, SERVICE_PRINCIPAL_CERT_FILE)),
              warned |-> ~\E k \in 1..Len(matched) :
                             matched[k][SERVICE_PRINCIPAL_TENANT] = tenant]

\* the comparison that decides whether a matched record is replaced
entry_differs_always(sp_entry, old) == TRUE
entry_differs(sp_entry, old) ==
    \/ Get(sp_entry, ACCESS_TOKEN) # Get(old, ACCESS_TOKEN)
    \/ Get(sp_entry, SERVICE_PRINCIPAL_CERT_FILE) # Get(old, SERVICE_PRINCIPAL_CERT_FILE)

\* save_service_principal_cred after the load: the new list and state_changed
save_cred(creds, sp_entry) ==
    LET matched == SelectSeq(creds, LAMBDA x :
                       /\ sp_entry[SERVICE_PRINCIPAL_ID] = x[SERVICE_PRINCIPAL_ID]
                       /\ sp_entry[SERVICE_PRINCIPAL_TENANT] = x[SERVICE_PRINCIPAL_TENANT])
    IN  IF matched # <<>>
        THEN IF entry_differs(sp_entry, matched[1])
             THEN [creds |-> Append(ListRemove(creds, matched[1]), sp_entry),
                   state_changed |-> TRUE, matched |-> TRUE]
             ELSE [creds |-> creds, state_changed |-> FALSE, matched |-> TRUE]
        ELSE [creds |-> Append(creds, sp_entry),
              state_changed |-> TRUE, matched |-> FALSE]

\* remove_cached_creds after the load
remove_creds_first_match(creds, user_or_sp) ==
    LET matched == matched_by_id(creds, user_or_sp)
    IN  IF matched # <<>>
        THEN [creds |-> ListRemove(creds, matched[1]), state_changed |-> TRUE]
        ELSE [creds |-> creds, state_changed |-> FALSE]
remove_creds(creds, user_or_sp) ==
    LET matched == matched_by_id(creds, user_or_sp)
    IN  IF matched # <<>>
        THEN [creds |-> SelectSeq(creds, LAMBDA x : ~In(x, matched)),
              state_changed |-> TRUE]
        ELSE [creds |-> creds, state_changed |-> FALSE]

(* ------------------- MsalSecretStore: _build_persistence --------------- *)

\* sys.platform values: Windows, macOS, Linux, and two that match no branch
Win32 == <<"w", "i", "n", "3", "2">>
Darwin == <<"d", "a", "r", "w", "i", "n">>
Linux == <<"l", "i", "n", "u", "x">>
Cygwin == <<"c", "y", "g", "w", "i", "n">>
FreeBSD == <<"f", "r", "e", "e", "b", "s", "d">>
Platforms == {Win32, Darwin, Linux, Cygwin, FreeBSD}

\* str.startswith
startswith(str, prefix) ==
    /\ Len(str) >= Len(prefix)
    /\ SubSeq(str, 1, Len(prefix)) = prefix

\* LibsecretPersistence(...): the constructor raises when the secret service
\* cannot be used
LibsecretPersistence(available) ==
    IF available THEN [variant |-> "LibsecretPersistence", raised |-> None]
    ELSE [variant |-> None, raised |-> "Exception"]

\* _build_persistence: the backend variant returned, whether the plain-text
\* warning was logged, or the exception that leaves it
build_persistence_falls_back(sys_platform, available, fallback) ==
    IF startswith(sys_platform, <<"w", "i", "n">>)
    THEN [variant |-> "FilePersistenceWithDataProtection", warned |-> FALSE, raised |-> None]
    ELSE IF startswith(sys_platform, <<"d", "a", "r", "w", "i", "n">>)
    THEN [variant |-> "KeychainPersistence", warned |-> FALSE, raised |-> None]
    ELSE IF startswith(sys_platform, <<"l", "i", "n", "u", "x">>) /\ available
    THEN [variant |-> "LibsecretPersistence", warned |-> FALSE, raised |-> None]
    ELSE [variant |-> "FilePersistence", warned |-> FALSE, raised |-> None]
build_persistence(sys_platform, available, fallback) ==
    IF startswith(sys_platform, <<"w", "i", "n">>)
    THEN [variant |-> "FilePersistenceWithDataProtection", warned |-> FALSE, raised |-> None]
    ELSE IF startswith(sys_platform, <<"d", "a", "r", "w", "i", "n">>)
    THEN [variant |-> "KeychainPersistence", warned |-> FALSE, raised |-> None]
    ELSE IF startswith(sys_platform, <<"l", "i", "n", "u", "x">>)
    THEN IF LibsecretPersistence(available).raised = None
         THEN [variant |-> LibsecretPersistence(available).variant,
               warned |-> FALSE, raised |-> None]
         ELSE IF ~fallback
         THEN [variant |-> None, warned |-> FALSE,
               raised |-> LibsecretPersistence(available).raised]
         ELSE [variant |-> "FilePersistence", warned |-> TRUE, raised |-> None]
    ELSE [variant |-> "FilePersistence", warned |-> FALSE, raised |-> None]

(* ------------------------------ token broker --------------------------- *)

\* what acquire_token_for_client hands back: a success payload or an error
\* payload
BrokerResults == {("access_token" :> "eyJ0"), ("error" :> "invalid_client")}

\* util.check_result: raises the authentication error on an error payload
check_result(result) ==
    IF "error" \in DOMAIN result THEN [raised |-> "AuthenticationError"]
    ELSE [raised |-> None]

\* the payloads check_result lets through
Accepted == {result \in BrokerResults : check_result(result).raised = None}

\* user names of the username-password logins
Users == {"alice", "bob"}

\* for account in accounts: self.msal_app.remove_account(account), over the
\* token cache; remove_account raises for the accounts in failing, and the
\* exception leaves the loop
RECURSIVE remove_accounts(_, _, _)
remove_accounts(accounts, cache, failing) ==
    IF accounts = <<>>
    THEN [cache |-> cache, attempted |-> <<>>, raised |-> None]
    ELSE IF Head(accounts) \in failing
    THEN [cache |-> cache, attempted |-> <<Head(accounts)>>, raised |-> "Exception"]
    ELSE LET rest == remove_accounts(Tail(accounts),
                                     ListRemove(cache, Head(accounts)), failing)
         IN  [cache |-> rest.cache,
              attempted |-> <<Head(accounts)>> \o rest.attempted,
              raised |-> rest.raised]

(* ------------------------------ environment ---------------------------- *)

AZURE_CLI_CLIENT_ID == "04b07795-8ddb-461a-bbee-02f9e1bf7b46"
AZURE_USERNAME_VAR == "AZURE_USERNAME"
AZURE_CLIENT_ID_VAR == "AZURE_CLIENT_ID"

\* os.environ with neither variable set
NoEnviron == <<>>

\* os.environ as the process may find it: each variable unset, set to the
\* empty string, or set to a value
Environs ==
    UNION {[S -> {"", "value"}] : S \in SUBSET {AZURE_USERNAME_VAR, AZURE_CLIENT_ID_VAR}}

\* os.environ after get_environment_credential
environ_after_overwrites(env) ==
    IF Truthy(Get(env, AZURE_USERNAME_VAR))
    THEN (AZURE_CLIENT_ID_VAR :> AZURE_CLI_CLIENT_ID) @@ env
    ELSE env
environ_after(env) ==
    LET username == Get(env, AZURE_USERNAME_VAR)
        client_id == Get(env, AZURE_CLIENT_ID_VAR)
    IN  IF Truthy(username) /\ ~Truthy(client_id)
        THEN (AZURE_CLIENT_ID_VAR :> AZURE_CLI_CLIENT_ID) @@ env
        ELSE env

(* ------------------------------ migrate_tokens ------------------------- *)

\* a user entry of the legacy (ADAL) token cache
UserEntry(user, refresh_token) ==
    ("userId" :> user) @@ ("_authority" :> "https://login.microsoftonline.com/common")
    @@ ("resource" :> "https://management.core.windows.net/")
    @@ ("refreshToken" :> refresh_token)

\* entries a legacy token cache may hold: a service-principal entry, one
\* without its tenant, a user entry, one whose refresh token has expired,
\* one without its refresh token
AdalEntries ==
    LegacyEntries
    \cup {(SERVICE_PRINCIPAL_ID :> "sp2") @@ (ACCESS_TOKEN :> "abc")}
    \cup {UserEntry("alice", "0.AR"), UserEntry("bob", "expired")}
    \cup {("userId" :> "bob") @@ ("_authority" :> "https://login.microsoftonline.com/common")
          @@ ("resource" :> "https://management.core.windows.net/")}

\* the legacy token caches: absent, or a list of entries
AdalFiles ==
    {[exists |-> FALSE, entries |-> <<>>]}
    \cup {[exists |-> TRUE, entries |-> e] :
             e \in UNION {[1..n -> AdalEntries] : n \in 0..MaxEntries}}

\* AdalCredentialCache()._load_tokens_from_file(): the entries of the file,
\* none when there is no file
load_tokens_from_file(adal) == IF adal.exists THEN adal.entries ELSE <<>>

\* a call of self._build_persistent_msal_app with these positional
\* arguments after self: the method takes none
build_persistent_msal_app(args) ==
    IF Len(args) = 0 THEN [raised |-> None] ELSE [raised |-> "TypeError"]

\* msal_app.acquire_token_by_refresh_token: the broker's answer
acquire_token_by_refresh_token(refresh_token) ==
    IF refresh_token = "expired" THEN ("error" :> "invalid_grant")
    ELSE ("access_token" :> "eyJ0")

\* save_service_principal_cred run to its end with nothing in between: the
\* load, the comparison, the persist when the list changed
store_save(file, creds, sp_entry) ==
    LET s == save_cred(load_cached_creds(file, creds), sp_entry)
    IN  [creds |-> s.creds,
         file |-> IF s.state_changed
                  THEN [exists |-> TRUE, data |-> json_dumps(s.creds)]
                  ELSE file]

\* the body of the try for one entry; st is the artifact, the in-memory
\* list, the token cache accounts and the exception raised, if any
migrate_entry(entry, st) ==
    IF "userId" \in DOMAIN entry
    THEN IF ~({"_authority", "resource", "refreshToken"} \subseteq DOMAIN entry)
         THEN [st EXCEPT !.raised = "KeyError"]
         ELSE IF build_persistent_msal_app(<<entry["_authority"]>>).raised # None
         THEN [st EXCEPT !.raised = build_persistent_msal_app(<<entry["_authority"]>>).raised]
         ELSE IF "error" \in DOMAIN acquire_token_by_refresh_token(entry["refreshToken"])
         THEN [st EXCEPT !.raised = "CLIError"]
         ELSE [st EXCEPT !.accounts = IF In(entry["userId"], @) THEN @
                                      ELSE Append(@, entry["userId"])]
    ELSE IF ~({SERVICE_PRINCIPAL_ID, SERVICE_PRINCIPAL_TENANT} \subseteq DOMAIN entry)
         THEN [st EXCEPT !.raised = "KeyError"]
         ELSE [st EXCEPT !.creds = store_save(st.file, st.creds, entry).creds,
                         !.file = store_save(st.file, st.creds, entry).file]

\* for entry in entries: try ... except CLIError: continue; any other
\* exception leaves the loop and migrate_tokens
RECURSIVE migrate_entries(_, _)
migrate_entries(entries, st) ==
    IF entries = <<>>
    THEN [file |-> st.file, creds |-> st.creds, accounts |-> st.accounts,
          outcomes |-> <<>>, raised |-> None]
    ELSE LET r == migrate_entry(Head(entries), st)
             rest == migrate_entries(Tail(entries), [r EXCEPT !.raised = None])
         IN  IF r.raised = None
             THEN [rest EXCEPT !.outcomes = <<"migrated">> \o @]
             ELSE IF r.raised = "CLIError"
             THEN [rest EXCEPT !.outcomes = <<"skipped">> \o @]
             ELSE [file |-> r.file, creds |-> r.creds, accounts |-> r.accounts,
                   outcomes |-> <<r.raised>>, raised |-> r.raised]

(* -------------------------------- state -------------------------------- *)

VARIABLES
    token_file,              \* the backing artifact: [exists, data]
    service_principal_creds, \* per process: self._service_principal_creds
    lock,                    \* holder of the CrossPlatLock on _lock_file, or "free"
    pc,                      \* per process: position inside the running operation
    call,                    \* per process: the running operation and its arguments
    ret,                     \* per process: how the last operation ended
    ops,                     \* operations started so far
    fresh,                   \* per process: instance constructed, nothing loaded yet
    row,                     \* history: identical saves issued back to back
    justSaved,               \* history: the save that returned last, store untouched since
    removed,                 \* history: principals removed and not saved since
    overlapped,              \* per process: its save ran while another save was running
    broker,                  \* history, per process: the token broker's part in its last operation
    platform,                \* sys.platform of the host
    secret_service,          \* whether LibsecretPersistence can be constructed right now
    fallback_to_plaintext,   \* per process: self._fallback_to_plaintext
    persistence,             \* per process: the backend the running load or persist built
    backends,                \* history, per process: the backend variants the instance has built
    environ,                 \* os.environ: AZURE_USERNAME and AZURE_CLIENT_ID
    msal_accounts,           \* the accounts in the MSAL token cache, as get_accounts lists them
    failed                   \* history, per process: the entry of its save whose backend save raised, no save having succeeded since

hostvars == <<platform, secret_service, fallback_to_plaintext>>
idvars == <<environ, msal_accounts>>
vars == <<token_file, service_principal_creds, lock, pc, call, ret, ops,
          fresh, row, justSaved, removed, overlapped, broker,
          platform, secret_service, fallback_to_plaintext, persistence, backends,
          environ, msal_accounts, failed>>

NoFile == [exists |-> FALSE, data |-> <<>>]
NoCall == [op |-> "none"]
NoRet == [op |-> "none", status |-> "none"]
NoRow == [proc |-> "none"]
NoSaved == [proc |-> "none"]
NoBroker == [calls |-> 0]
NoFailure == [raised |-> FALSE]

\* MsalSecretStore.__init__ in every process; the artifact not yet written
StoreInit ==
    /\ token_file = NoFile
    /\ service_principal_creds = [i \in Procs |-> <<>>]
    /\ lock = "free"
    /\ pc = [i \in Procs |-> "idle"]
    /\ call = [i \in Procs |-> NoCall]
    /\ ret = [i \in Procs |-> NoRet]
    /\ ops = 0
    /\ fresh = [i \in Procs |-> TRUE]
    /\ row = NoRow
    /\ justSaved = NoSaved
    /\ removed = [p \in Principals |-> FALSE]
    /\ overlapped = [i \in Procs |-> FALSE]
    /\ broker = [i \in Procs |-> NoBroker]
    /\ persistence = [i \in Procs |-> None]
    /\ backends = [i \in Procs |-> {}]
    /\ failed = [i \in Procs |-> NoFailure]

\* neither environment variable set, no account in the token cache
IdentityInit ==
    /\ environ = NoEnviron
    /\ msal_accounts = <<>>

\* CLI processes of one Linux host whose secret service is running, every
\* store constructed with the default fallback_to_plaintext=True
Init ==
    /\ StoreInit
    /\ IdentityInit
    /\ platform = Linux
    /\ secret_service = TRUE
    /\ fallback_to_plaintext = [i \in Procs |-> TRUE]

(* --------------------------- history bookkeeping ----------------------- *)

\* a save of sp_entry by i starts: it follows an identical save of the same
\* instance directly when row still describes that save as returned
RowOnSaveCall(i, sp_entry) ==
    IF row.proc = i /\ ~row.busy /\ row.sp_entry = sp_entry
    THEN [proc |-> i, sp_entry |-> sp_entry, busy |-> TRUE, calls |-> 2,
          prev_w |-> row.w, prev_had |-> row.had, w |-> 0, had |-> FALSE]
    ELSE [proc |-> i, sp_entry |-> sp_entry, busy |-> TRUE, calls |-> 1,
          prev_w |-> 0, prev_had |-> FALSE, w |-> 0, had |-> FALSE]

\* a step of i that is part of the save row describes keeps row; any other
\* step of any process ends the run
RowKeep(i) == IF row.proc = i /\ row.busy THEN row ELSE NoRow

SaveInFlight(p) ==
    \E j \in Procs : /\ call[j].op = "save"
                     /\ call[j].sp_entry[SERVICE_PRINCIPAL_ID] = p

\* persistence = self._build_persistence() at the head of _load_cached_creds
\* and of _persist_cached_creds, a backend being returned
BuildPersistence(i) ==
    LET b == build_persistence(platform, secret_service, fallback_to_plaintext[i])
    IN  /\ b.raised = None
        /\ persistence' = [persistence EXCEPT ![i] = b.variant]
        /\ backends' = [backends EXCEPT ![i] = @ \cup {b.variant}]

(* ------------------------- operations: the calls ----------------------- *)

\* save_service_principal_cred(sp_entry) is entered and _load_cached_creds
\* has taken the CrossPlatLock
save_service_principal_cred(i, sp_entry) ==
    /\ pc[i] = "idle"
    /\ ops < MaxOps
    /\ lock = "free" /\ lock' = i
    /\ pc' = [pc EXCEPT ![i] = "load"]
    /\ call' = [call EXCEPT ![i] = [op |-> "save", sp_entry |-> sp_entry]]
    /\ ret' = [ret EXCEPT ![i] = NoRet]
    /\ ops' = ops + 1
    /\ row' = RowOnSaveCall(i, sp_entry)
    /\ justSaved' = NoSaved
    /\ removed' = [removed EXCEPT ![sp_entry[SERVICE_PRINCIPAL_ID]] = FALSE]
    /\ overlapped' = [j \in Procs |->
                        IF j = i THEN \E k \in Procs \ {i} : call[k].op = "save"
                        ELSE overlapped[j] \/ call[j].op = "save"]
    /\ BuildPersistence(i)
    /\ UNCHANGED <<token_file, service_principal_creds, fresh, hostvars, idvars, failed>>

\* Identity.login_with_service_principal: acquire_token_for_client is
\* called once and handed back result; check_result raises on an error
\* payload, otherwise the entry is built and the save begins
login_with_service_principal_unchecked(i, client_id, tenant_id, secret_or_certificate, result) ==
    LET sp_auth == ServicePrincipalAuth(client_id, tenant_id, secret_or_certificate, None)
    IN  /\ broker' = [broker EXCEPT ![i] = [result |-> result, calls |-> 1]]
        /\ sp_auth.raised = None
        /\ save_service_principal_cred(i, get_entry_to_persist(sp_auth))
login_with_service_principal(i, client_id, tenant_id, secret_or_certificate, result) ==
    LET sp_auth == ServicePrincipalAuth(client_id, tenant_id, secret_or_certificate, None)
    IN  /\ broker' = [broker EXCEPT ![i] = [result |-> result, calls |-> 1]]
        /\ IF check_result(result).raised # None
           THEN /\ pc[i] = "idle"
                /\ ret' = [ret EXCEPT ![i] = [op |-> "login",
                                              status |-> check_result(result).raised]]
                /\ UNCHANGED <<token_file, service_principal_creds, lock, pc, call, ops,
                               fresh, row, justSaved, removed, overlapped,
                               hostvars, persistence, backends, idvars, failed>>
           ELSE /\ sp_auth.raised = None
                /\ save_service_principal_cred(i, get_entry_to_persist(sp_auth))

\* a caller that built its ServicePrincipalAuth from a certificate file
\* saves the entry
save_certificate_entry(i, client_id, tenant_id, certificate_file) ==
    LET sp_auth == ServicePrincipalAuth(client_id, tenant_id, None, certificate_file)
    IN  /\ sp_auth.raised = None
        /\ save_service_principal_cred(i, get_entry_to_persist(sp_auth))
        /\ broker' = [broker EXCEPT ![i] = NoBroker]

\* Identity.migrate_tokens reaching a service-principal entry of the legacy cache
migrate_tokens(i, entry) ==
    /\ entry \in LegacyEntries
    /\ save_service_principal_cred(i, entry)
    /\ broker' = [broker EXCEPT ![i] = NoBroker]

\* retrieve_secret_of_service_principal(sp_id, tenant) is entered
\* (Identity.get_service_principal_credential) and holds the lock for its load
retrieve_secret_of_service_principal(i, sp_id, tenant) ==
    /\ pc[i] = "idle"
    /\ ops < MaxOps
    /\ lock = "free" /\ lock' = i
    /\ pc' = [pc EXCEPT ![i] = "load"]
    /\ call' = [call EXCEPT ![i] = [op |-> "retrieve", sp_id |-> sp_id, tenant |-> tenant]]
    /\ ret' = [ret EXCEPT ![i] = NoRet]
    /\ ops' = ops + 1
    /\ row' = NoRow
    /\ overlapped' = [overlapped EXCEPT ![i] = FALSE]
    /\ broker' = [broker EXCEPT ![i] = NoBroker]
    /\ BuildPersistence(i)
    /\ UNCHANGED <<token_file, service_principal_creds, fresh, justSaved, removed,
                   hostvars, idvars, failed>>

\* remove_cached_creds(user_or_sp) is entered (Identity.logout_sp) and holds
\* the lock for its load
remove_cached_creds(i, user_or_sp) ==
    /\ pc[i] = "idle"
    /\ ops < MaxOps
    /\ lock = "free" /\ lock' = i
    /\ pc' = [pc EXCEPT ![i] = "load"]
    /\ call' = [call EXCEPT ![i] = [op |-> "remove", user_or_sp |-> user_or_sp]]
    /\ ret' = [ret EXCEPT ![i] = NoRet]
    /\ ops' = ops + 1
    /\ row' = NoRow
    /\ justSaved' = NoSaved
    /\ overlapped' = [overlapped EXCEPT ![i] = FALSE]
    /\ broker' = [broker EXCEPT ![i] = NoBroker]
    /\ BuildPersistence(i)
    /\ UNCHANGED <<token_file, service_principal_creds, fresh, removed,
                   hostvars, idvars, failed>>

\* os.remove(path): unlinks the file, FileNotFoundError when there is none
os_remove(file) ==
    IF file.exists THEN [file |-> NoFile, raised |-> None]
    ELSE [file |-> file, raised |-> "FileNotFoundError"]

\* the body of remove_all_cached_creds: try os.remove(self._token_file),
\* except FileNotFoundError: pass
remove_all_creds_uncaught(file) ==
    LET r == os_remove(file)
    IN  [file |-> r.file, status |-> IF r.raised = None THEN "ok" ELSE r.raised]
remove_all_creds(file) ==
    LET r == os_remove(file)
    IN  [file |-> r.file,
         status |-> IF r.raised \in {None, "FileNotFoundError"} THEN "ok" ELSE r.raised]

\* remove_all_cached_creds: no lock is taken and the in-memory list is left
\* as it is
remove_all_cached_creds(i) ==
    /\ pc[i] = "idle"
    /\ ops < MaxOps
    /\ token_file' = remove_all_creds(token_file).file
    /\ ret' = [ret EXCEPT ![i] = [op |-> "remove_all",
                                  status |-> remove_all_creds(token_file).status,
                                  found |-> token_file.exists]]
    /\ ops' = ops + 1
    /\ row' = NoRow
    /\ justSaved' = NoSaved
    /\ overlapped' = [overlapped EXCEPT ![i] = FALSE]
    /\ broker' = [broker EXCEPT ![i] = NoBroker]
    /\ UNCHANGED <<service_principal_creds, lock, pc, call, fresh, removed,
                   hostvars, persistence, backends, idvars, failed>>

\* the CLI process ends and a new one constructs its MsalSecretStore
Restart(i) ==
    /\ pc[i] = "idle"
    /\ ~fresh[i]
    /\ service_principal_creds' = [service_principal_creds EXCEPT ![i] = <<>>]
    /\ fresh' = [fresh EXCEPT ![i] = TRUE]
    /\ ret' = [ret EXCEPT ![i] = NoRet]
    /\ row' = NoRow
    /\ overlapped' = [overlapped EXCEPT ![i] = FALSE]
    /\ backends' = [backends EXCEPT ![i] = {}]
    /\ broker' = [broker EXCEPT ![i] = NoBroker]
    /\ failed' = [failed EXCEPT ![i] = NoFailure]
    /\ UNCHANGED <<token_file, lock, pc, call, ops, justSaved, removed,
                   hostvars, persistence, idvars>>

(* ------------------- operations: the steps under the lock -------------- *)

\* with CrossPlatLock(self._lock_file): entered in _persist_cached_creds
AcquireLock(i) ==
    /\ pc[i] = "persist_wait"
    /\ lock = "free"
    /\ lock' = i
    /\ pc' = [pc EXCEPT ![i] = "persist"]
    /\ row' = RowKeep(i)
    /\ BuildPersistence(i)
    /\ UNCHANGED <<token_file, service_principal_creds, call, ret, ops, fresh,
                   justSaved, removed, overlapped, broker, hostvars, idvars, failed>>

\* retrieve: the load, the lock released, the selection, the return or raise
RetrieveLoad(i) ==
    /\ pc[i] = "load" /\ call[i].op = "retrieve"
    /\ LET creds == load_cached_creds(token_file, service_principal_creds[i])
           r == retrieve_secret(creds, call[i].sp_id, call[i].tenant)
       IN  /\ service_principal_creds' = [service_principal_creds EXCEPT ![i] = creds]
           /\ ret' = [ret EXCEPT ![i] =
                        [op |-> "retrieve", status |-> r.status, value |-> r.value,
                         warned |-> r.warned, sp_id |-> call[i].sp_id,
                         tenant |-> call[i].tenant]]
    /\ lock' = "free"
    /\ pc' = [pc EXCEPT ![i] = "idle"]
    /\ call' = [call EXCEPT ![i] = NoCall]
    /\ fresh' = [fresh EXCEPT ![i] = FALSE]
    /\ row' = NoRow
    /\ persistence' = [persistence EXCEPT ![i] = None]
    /\ UNCHANGED <<token_file, ops, justSaved, removed, overlapped,
                   broker, hostvars, backends, idvars, failed>>

\* save: the load, the lock released, the list updated; returns when
\* nothing changed, goes on to _persist_cached_creds otherwise
SaveLoad_keeps_lock(i) ==
    /\ pc[i] = "load" /\ call[i].op = "save"
    /\ LET creds == load_cached_creds(token_file, service_principal_creds[i])
           s == save_cred(creds, call[i].sp_entry)
       IN  /\ service_principal_creds' = [service_principal_creds EXCEPT ![i] = s.creds]
           /\ row' = IF row.proc = i /\ row.busy
                     THEN [row EXCEPT !.had = s.matched, !.busy = s.state_changed]
                     ELSE NoRow
           /\ IF s.state_changed
              THEN /\ pc' = [pc EXCEPT ![i] = "persist_wait"]
                   /\ UNCHANGED <<call, ret, justSaved>>
              ELSE /\ pc' = [pc EXCEPT ![i] = "idle"]
                   /\ call' = [call EXCEPT ![i] = NoCall]
                   /\ ret' = [ret EXCEPT ![i] =
                                [op |-> "save", status |-> "ok", writes |-> 0,
                                 sp_entry |-> call[i].sp_entry]]
                   /\ justSaved' = [proc |-> i, sp_entry |-> call[i].sp_entry]
    /\ lock' = IF pc'[i] = "persist_wait" THEN lock ELSE "free"
    /\ fresh' = [fresh EXCEPT ![i] = FALSE]
    /\ persistence' = [persistence EXCEPT ![i] = None]
    /\ failed' = [failed EXCEPT ![i] =
                    IF save_cred(load_cached_creds(token_file, service_principal_creds[i]),
                                 call[i].sp_entry).state_changed
                    THEN @ ELSE NoFailure]
    /\ UNCHANGED <<token_file, ops, removed, overlapped,
                   broker, hostvars, backends, idvars>>
SaveLoad(i) ==
    /\ pc[i] = "load" /\ call[i].op = "save"
    /\ LET creds == load_cached_creds(token_file, service_principal_creds[i])
           s == save_cred(creds, call[i].sp_entry)
       IN  /\ service_principal_creds' = [service_principal_creds EXCEPT ![i] = s.creds]
           /\ row' = IF row.proc = i /\ row.busy
                     THEN [row EXCEPT !.had = s.matched, !.busy = s.state_changed]
                     ELSE NoRow
           /\ IF s.state_changed
              THEN /\ pc' = [pc EXCEPT ![i] = "persist_wait"]
                   /\ UNCHANGED <<call, ret, justSaved>>
              ELSE /\ pc' = [pc EXCEPT ![i] = "idle"]
                   /\ call' = [call EXCEPT ![i] = NoCall]
                   /\ ret' = [ret EXCEPT ![i] =
                                [op |-> "save", status |-> "ok", writes |-> 0,
                                 sp_entry |-> call[i].sp_entry]]
                   /\ justSaved' = [proc |-> i, sp_entry |-> call[i].sp_entry]
    /\ lock' = "free"
    /\ fresh' = [fresh EXCEPT ![i] = FALSE]
    /\ persistence' = [persistence EXCEPT ![i] = None]
    /\ failed' = [failed EXCEPT ![i] =
                    IF save_cred(load_cached_creds(token_file, service_principal_creds[i]),
                                 call[i].sp_entry).state_changed
                    THEN @ ELSE NoFailure]
    /\ UNCHANGED <<token_file, ops, removed, overlapped,
                   broker, hostvars, backends, idvars>>

\* remove: the load, the lock released, the matching records dropped
RemoveLoad(i) ==
    /\ pc[i] = "load" /\ call[i].op = "remove"
    /\ LET creds == load_cached_creds(token_file, service_principal_creds[i])
           s == remove_creds(creds, call[i].user_or_sp)
       IN  /\ service_principal_creds' = [service_principal_creds EXCEPT ![i] = s.creds]
           /\ IF s.state_changed
              THEN /\ pc' = [pc EXCEPT ![i] = "persist_wait"]
                   /\ UNCHANGED <<call, ret, removed>>
              ELSE /\ pc' = [pc EXCEPT ![i] = "idle"]
                   /\ call' = [call EXCEPT ![i] = NoCall]
                   /\ ret' = [ret EXCEPT ![i] =
                                [op |-> "remove", status |-> "ok", writes |-> 0,
                                 user_or_sp |-> call[i].user_or_sp]]
                   /\ removed' = [removed EXCEPT ![call[i].user_or_sp] =
                                     ~SaveInFlight(call[i].user_or_sp)]
    /\ lock' = "free"
    /\ fresh' = [fresh EXCEPT ![i] = FALSE]
    /\ row' = NoRow
    /\ persistence' = [persistence EXCEPT ![i] = None]
    /\ UNCHANGED <<token_file, ops, justSaved, overlapped,
                   broker, hostvars, backends, idvars, failed>>

\* _persist_cached_creds: persistence.save(json.dumps(creds)) succeeds, the
\* lock is released and the operation returns
persist_cached_creds(i) ==
    /\ pc[i] = "persist"
    /\ token_file' = [exists |-> TRUE, data |-> json_dumps(service_principal_creds[i])]
    /\ lock' = "free"
    /\ pc' = [pc EXCEPT ![i] = "idle"]
    /\ call' = [call EXCEPT ![i] = NoCall]
    /\ IF call[i].op = "save"
       THEN /\ ret' = [ret EXCEPT ![i] =
                         [op |-> "save", status |-> "ok", writes |-> 1,
                          sp_entry |-> call[i].sp_entry]]
            /\ justSaved' = [proc |-> i, sp_entry |-> call[i].sp_entry]
            /\ row' = IF row.proc = i /\ row.busy
                      THEN [row EXCEPT !.w = 1, !.busy = FALSE]
                      ELSE NoRow
            /\ UNCHANGED removed
       ELSE /\ ret' = [ret EXCEPT ![i] =
                         [op |-> "remove", status |-> "ok", writes |-> 1,
                          user_or_sp |-> call[i].user_or_sp]]
            /\ justSaved' = NoSaved
            /\ row' = NoRow
            /\ removed' = [removed EXCEPT ![call[i].user_or_sp] =
                              ~SaveInFlight(call[i].user_or_sp)]
    /\ persistence' = [persistence EXCEPT ![i] = None]
    /\ failed' = [j \in Procs |-> NoFailure]
    /\ UNCHANGED <<service_principal_creds, ops, fresh, overlapped,
                   broker, hostvars, backends, idvars>>

\* _persist_cached_creds: persistence.save raises (I/O or permission
\* failure); the with block releases the lock and the error propagates
PersistFails(i) ==
    /\ pc[i] = "persist"
    /\ lock' = "free"
    /\ pc' = [pc EXCEPT ![i] = "idle"]
    /\ call' = [call EXCEPT ![i] = NoCall]
    /\ ret' = [ret EXCEPT ![i] = [op |-> call[i].op, status |-> "StorageError",
                                  writes |-> 1]]
    /\ row' = NoRow
    /\ justSaved' = NoSaved
    /\ persistence' = [persistence EXCEPT ![i] = None]
    /\ failed' = [failed EXCEPT ![i] =
                    IF call[i].op = "save"
                    THEN [raised |-> TRUE, sp_entry |-> call[i].sp_entry]
                    ELSE @]
    /\ UNCHANGED <<token_file, service_principal_creds, ops, fresh, removed, overlapped,
                   broker, hostvars, backends, idvars>>

Next ==
    \/ \E i \in Procs, a \in LoginInputs, result \in Accepted :
           login_with_service_principal(i, a[1], a[2], a[3], result)
    \/ \E i \in Procs, a \in CertInputs :
           save_certificate_entry(i, a[1], a[2], a[3])
    \/ \E i \in Procs, e \in LegacyEntries : migrate_tokens(i, e)
    \/ \E i \in Procs, a \in RetrieveInputs :
           retrieve_secret_of_service_principal(i, a[1], a[2])
    \/ \E i \in Procs, p \in Principals : remove_cached_creds(i, p)
    \/ \E i \in Procs : remove_all_cached_creds(i)
    \/ \E i \in Procs : Restart(i)
    \/ \E i \in Procs : AcquireLock(i)
    \/ \E i \in Procs : RetrieveLoad(i)
    \/ \E i \in Procs : SaveLoad(i)
    \/ \E i \in Procs : RemoveLoad(i)
    \/ \E i \in Procs : persist_cached_creds(i)
    \/ \E i \in Procs : PersistFails(i)

Spec == Init /\ [][Next]_vars

(* ------------- one instance, on any host, any broker answer ------------ *)

\* the CLI process of the single-instance specification
Self == "p1"

\* an operation's _load_cached_creds calls _build_persistence and the
\* exception of LibsecretPersistence leaves it (no fallback allowed): the
\* operation raises before any lock is taken; a login had its token first
LoadBuildRaises(i, op) ==
    /\ pc[i] = "idle"
    /\ ops < MaxOps
    /\ build_persistence(platform, secret_service, fallback_to_plaintext[i]).raised # None
    /\ ret' = [ret EXCEPT ![i] =
                 [op |-> op, writes |-> 0,
                  status |-> build_persistence(platform, secret_service,
                                               fallback_to_plaintext[i]).raised]]
    /\ broker' = [broker EXCEPT ![i] =
                    IF op = "login"
                    THEN [result |-> CHOOSE result \in Accepted : TRUE, calls |-> 1]
                    ELSE NoBroker]
    /\ ops' = ops + 1
    /\ row' = NoRow
    /\ UNCHANGED <<token_file, service_principal_creds, lock, pc, call, fresh,
                   justSaved, removed, overlapped, hostvars, persistence, backends,
                   idvars, failed>>

\* _persist_cached_creds calls _build_persistence and the exception leaves
\* it: the operation raises with its list changed and nothing written
PersistBuildRaises(i) ==
    /\ pc[i] = "persist_wait"
    /\ build_persistence(platform, secret_service, fallback_to_plaintext[i]).raised # None
    /\ ret' = [ret EXCEPT ![i] =
                 [op |-> call[i].op, writes |-> 0,
                  status |-> build_persistence(platform, secret_service,
                                               fallback_to_plaintext[i]).raised]]
    /\ pc' = [pc EXCEPT ![i] = "idle"]
    /\ call' = [call EXCEPT ![i] = NoCall]
    /\ row' = NoRow
    /\ justSaved' = NoSaved
    /\ UNCHANGED <<token_file, service_principal_creds, lock, ops, fresh, removed,
                   overlapped, broker, hostvars, persistence, backends, idvars, failed>>

\* the secret service of the host starts or stops being usable
SecretServiceChanges ==
    /\ secret_service' = ~secret_service
    /\ UNCHANGED <<token_file, service_principal_creds, lock, pc, call, ret, ops,
                   fresh, row, justSaved, removed, overlapped, broker, platform,
                   fallback_to_plaintext, persistence, backends, idvars, failed>>

\* one CLI process on a host of any platform, its store constructed with
\* either value of fallback_to_plaintext
InstanceInit ==
    /\ StoreInit
    /\ IdentityInit
    /\ platform \in Platforms
    /\ secret_service \in BOOLEAN
    /\ fallback_to_plaintext \in {[i \in Procs |-> b] : b \in BOOLEAN}

InstanceNext ==
    \/ \E a \in LoginInputs, result \in BrokerResults :
           login_with_service_principal(Self, a[1], a[2], a[3], result)
    \/ \E a \in RetrieveInputs :
           retrieve_secret_of_service_principal(Self, a[1], a[2])
    \/ \E p \in Principals : remove_cached_creds(Self, p)
    \/ remove_all_cached_creds(Self)
    \/ Restart(Self)
    \/ AcquireLock(Self)
    \/ RetrieveLoad(Self)
    \/ SaveLoad(Self)
    \/ RemoveLoad(Self)
    \/ persist_cached_creds(Self)
    \/ PersistFails(Self)
    \/ \E op \in {"login", "retrieve", "remove"} : LoadBuildRaises(Self, op)
    \/ PersistBuildRaises(Self)
    \/ SecretServiceChanges

InstanceSpec == InstanceInit /\ [][InstanceNext]_vars

(* ------------- the Identity operations of one CLI process -------------- *)

\* login_with_username_password: the broker answers with result; on a
\* success payload it has put the account into the token cache
login_with_username_password(i, username, result) ==
    /\ pc[i] = "idle"
    /\ ops < MaxOps
    /\ msal_accounts' = IF check_result(result).raised = None
                            /\ ~In(username, msal_accounts)
                         THEN Append(msal_accounts, username)
                         ELSE msal_accounts
    /\ ret' = [ret EXCEPT ![i] =
                 [op |-> "login_user",
                  status |-> IF check_result(result).raised = None THEN "ok"
                             ELSE check_result(result).raised]]
    /\ ops' = ops + 1
    /\ UNCHANGED <<token_file, service_principal_creds, lock, pc, call, fresh, row,
                   justSaved, removed, overlapped, broker, hostvars, persistence,
                   backends, environ, failed>>

\* logout_all: get_accounts, remove_account for each account in turn (it
\* raises for those in failing), then remove_all_cached_creds; the method
\* has no return statement
logout_all(i, failing) ==
    LET accounts == msal_accounts
        r == remove_accounts(accounts, msal_accounts, failing)
    IN  /\ pc[i] = "idle"
        /\ ops < MaxOps
        /\ msal_accounts' = r.cache
        /\ token_file' = IF r.raised = None THEN remove_all_creds(token_file).file
                         ELSE token_file
        /\ ret' = [ret EXCEPT ![i] =
                     [op |-> "logout_all",
                      status |-> IF r.raised = None THEN remove_all_creds(token_file).status
                                 ELSE r.raised,
                      value |-> None,
                      accounts |-> accounts,
                      failing |-> failing,
                      attempted |-> r.attempted,
                      cleared |-> r.raised = None]]
        /\ ops' = ops + 1
        /\ row' = NoRow
        /\ justSaved' = NoSaved
        /\ UNCHANGED <<service_principal_creds, lock, pc, call, fresh, removed,
                       overlapped, broker, hostvars, persistence, backends, environ, failed>>

\* get_environment_credential: fills AZURE_CLIENT_ID in os.environ
get_environment_credential(i) ==
    /\ pc[i] = "idle"
    /\ ops < MaxOps
    /\ environ' = environ_after(environ)
    /\ ret' = [ret EXCEPT ![i] = [op |-> "get_environment_credential", status |-> "ok"]]
    /\ ops' = ops + 1
    /\ UNCHANGED <<token_file, service_principal_creds, lock, pc, call, fresh, row,
                   justSaved, removed, overlapped, broker, hostvars, persistence,
                   backends, msal_accounts, failed>>

\* migrate_tokens over the legacy token cache adal, from its first line to
\* its return or to the exception that leaves it
migrate_legacy_tokens(i, adal) ==
    LET entries == load_tokens_from_file(adal)
        r == migrate_entries(entries, [file |-> token_file,
                                       creds |-> service_principal_creds[i],
                                       accounts |-> msal_accounts,
                                       raised |-> None])
    IN  /\ pc[i] = "idle"
        /\ ops < MaxOps
        /\ token_file' = r.file
        /\ service_principal_creds' = [service_principal_creds EXCEPT ![i] = r.creds]
        /\ msal_accounts' = r.accounts
        /\ ret' = [ret EXCEPT ![i] =
                     [op |-> "migrate_tokens",
                      status |-> IF r.raised = None THEN "ok" ELSE r.raised,
                      adal |-> adal,
                      outcomes |-> r.outcomes]]
        /\ ops' = ops + 1
        /\ row' = NoRow
        /\ justSaved' = NoSaved
        /\ UNCHANGED <<lock, pc, call, fresh, removed, overlapped, broker, hostvars,
                       persistence, backends, environ, failed>>

\* one CLI process started in any environment, on the host of Init
IdentitySpecInit ==
    /\ StoreInit
    /\ environ \in Environs
    /\ msal_accounts = <<>>
    /\ platform = Linux
    /\ secret_service = TRUE
    /\ fallback_to_plaintext = [i \in Procs |-> TRUE]

IdentityNext ==
    \/ \E u \in Users, result \in BrokerResults :
           login_with_username_password(Self, u, result)
    \/ \E a \in LoginInputs, result \in BrokerResults :
           login_with_service_principal(Self, a[1], a[2], a[3], result)
    \/ SaveLoad(Self)
    \/ AcquireLock(Self)
    \/ persist_cached_creds(Self)
    \/ \E failing \in SUBSET Users : logout_all(Self, failing)
    \/ get_environment_credential(Self)

IdentitySpec == IdentitySpecInit /\ [][IdentityNext]_vars

(* ------------- the migration of a legacy token cache ------------------- *)

\* one CLI process that logs service principals in and migrates legacy
\* token caches
MigrationNext ==
    \/ \E a \in LoginInputs, result \in Accepted :
           login_with_service_principal(Self, a[1], a[2], a[3], result)
    \/ SaveLoad(Self)
    \/ AcquireLock(Self)
    \/ persist_cached_creds(Self)
    \/ \E adal \in AdalFiles : migrate_legacy_tokens(Self, adal)

MigrationSpec == Init /\ [][MigrationNext]_vars

(* --------------- processes contending for the CrossPlatLock ------------ *)

\* the operations the contending processes issue, again and again: ops
\* counts them up to MaxOps and stays there
ContendedSaves ==
    {get_entry_to_persist(ServicePrincipalAuth("sp1", "t1", "abc", None))}
ContendedRetrieves == {<<"sp1", "t1">>}
ContendedRemoves == {"sp1"}

\* save_service_principal_cred(sp_entry) is entered: _load_cached_creds has
\* built its backend and is at its with CrossPlatLock, not yet inside
enter_save(i, sp_entry) ==
    /\ pc[i] = "idle"
    /\ pc' = [pc EXCEPT ![i] = "load_wait"]
    /\ call' = [call EXCEPT ![i] = [op |-> "save", sp_entry |-> sp_entry]]
    /\ ret' = [ret EXCEPT ![i] = NoRet]
    /\ ops' = IF ops < MaxOps THEN ops + 1 ELSE ops
    /\ row' = RowOnSaveCall(i, sp_entry)
    /\ justSaved' = NoSaved
    /\ removed' = [removed EXCEPT ![sp_entry[SERVICE_PRINCIPAL_ID]] = FALSE]
    /\ overlapped' = [j \in Procs |->
                        IF j = i THEN \E k \in Procs \ {i} : call[k].op = "save"
                        ELSE overlapped[j] \/ call[j].op = "save"]
    /\ broker' = [broker EXCEPT ![i] = NoBroker]
    /\ BuildPersistence(i)
    /\ UNCHANGED <<token_file, service_principal_creds, lock, fresh, hostvars, idvars,
                   failed>>

\* retrieve_secret_of_service_principal(sp_id, tenant) is entered and is at
\* the with CrossPlatLock of its load
enter_retrieve(i, sp_id, tenant) ==
    /\ pc[i] = "idle"
    /\ pc' = [pc EXCEPT ![i] = "load_wait"]
    /\ call' = [call EXCEPT ![i] = [op |-> "retrieve", sp_id |-> sp_id, tenant |-> tenant]]
    /\ ret' = [ret EXCEPT ![i] = NoRet]
    /\ ops' = IF ops < MaxOps THEN ops + 1 ELSE ops
    /\ row' = NoRow
    /\ overlapped' = [overlapped EXCEPT ![i] = FALSE]
    /\ broker' = [broker EXCEPT ![i] = NoBroker]
    /\ BuildPersistence(i)
    /\ UNCHANGED <<token_file, service_principal_creds, lock, fresh, justSaved, removed,
                   hostvars, idvars, failed>>

\* remove_cached_creds(user_or_sp) is entered and is at the with
\* CrossPlatLock of its load
enter_remove(i, user_or_sp) ==
    /\ pc[i] = "idle"
    /\ pc' = [pc EXCEPT ![i] = "load_wait"]
    /\ call' = [call EXCEPT ![i] = [op |-> "remove", user_or_sp |-> user_or_sp]]
    /\ ret' = [ret EXCEPT ![i] = NoRet]
    /\ ops' = IF ops < MaxOps THEN ops + 1 ELSE ops
    /\ row' = NoRow
    /\ justSaved' = NoSaved
    /\ overlapped' = [overlapped EXCEPT ![i] = FALSE]
    /\ broker' = [broker EXCEPT ![i] = NoBroker]
    /\ BuildPersistence(i)
    /\ UNCHANGED <<token_file, service_principal_creds, lock, fresh, removed,
                   hostvars, idvars, failed>>

\* with CrossPlatLock(self._lock_file): entered in _load_cached_creds
AcquireLoadLock(i) ==
    /\ pc[i] = "load_wait"
    /\ lock = "free"
    /\ lock' = i
    /\ pc' = [pc EXCEPT ![i] = "load"]
    /\ row' = RowKeep(i)
    /\ UNCHANGED <<token_file, service_principal_creds, call, ret, ops, fresh,
                   justSaved, removed, overlapped, broker, hostvars, persistence,
                   backends, idvars, failed>>

ContentionNext ==
    \/ \E i \in Procs, e \in ContendedSaves : enter_save(i, e)
    \/ \E i \in Procs, a \in ContendedRetrieves : enter_retrieve(i, a[1], a[2])
    \/ \E i \in Procs, p \in ContendedRemoves : enter_remove(i, p)
    \/ \E i \in Procs : remove_all_cached_creds(i)
    \/ \E i \in Procs : AcquireLoadLock(i)
    \/ \E i \in Procs : AcquireLock(i)
    \/ \E i \in Procs : RetrieveLoad(i)
    \/ \E i \in Procs : SaveLoad(i)
    \/ \E i \in Procs : RemoveLoad(i)
    \/ \E i \in Procs : persist_cached_creds(i)
    \/ \E i \in Procs : PersistFails(i)

\* the code is synchronous: a process inside a with block runs it to its
\* end; the lock is fair: a process at a with CrossPlatLock that finds the
\* lock free again and again gets it
ContentionFairness ==
    \A i \in Procs :
        /\ SF_vars(AcquireLoadLock(i))
        /\ SF_vars(AcquireLock(i))
        /\ WF_vars(RetrieveLoad(i) \/ SaveLoad(i) \/ RemoveLoad(i))
        /\ WF_vars(persist_cached_creds(i) \/ PersistFails(i))

ContentionSpec == Init /\ [][ContentionNext]_vars /\ ContentionFairness

(* ------------------------- vocabulary of the claims -------------------- *)

\* the credential a record carries
CredentialOf(x) ==
    IF SERVICE_PRINCIPAL_SECRET \in DOMAIN x THEN x[SERVICE_PRINCIPAL_SECRET]
    ELSE IF SERVICE_PRINCIPAL_CERT_FILE \in DOMAIN x THEN x[SERVICE_PRINCIPAL_CERT_FILE]
    ELSE None

\* exactly one of secret / certificateFile is populated
WellShaped(x) ==
    Truthy(Get(x, SERVICE_PRINCIPAL_SECRET)) # Truthy(Get(x, SERVICE_PRINCIPAL_CERT_FILE))

\* an entry as get_entry_to_persist builds it
IsLoginEntry(x) ==
    \/ DOMAIN x = {SERVICE_PRINCIPAL_ID, SERVICE_PRINCIPAL_TENANT, SERVICE_PRINCIPAL_SECRET}
    \/ DOMAIN x = {SERVICE_PRINCIPAL_ID, SERVICE_PRINCIPAL_TENANT, SERVICE_PRINCIPAL_CERT_FILE}

SameKey(x, y) ==
    /\ x[SERVICE_PRINCIPAL_ID] = y[SERVICE_PRINCIPAL_ID]
    /\ x[SERVICE_PRINCIPAL_TENANT] = y[SERVICE_PRINCIPAL_TENANT]

\* positions of the records of creds with the key of x
KeyPositions(creds, x) == {k \in 1..Len(creds) : SameKey(creds[k], x)}

UniqueKeys(creds) ==
    \A k, m \in 1..Len(creds) : SameKey(creds[k], creds[m]) => k = m

\* the persisted record sequence; the empty one when the artifact is absent
Persisted == IF token_file.exists THEN json_loads(token_file.data) ELSE <<>>

\* the step in which process i's retrieve loads, selects and returns or raises
RetrieveStep(i) == pc[i] = "load" /\ call[i].op = "retrieve" /\ pc'[i] = "idle"

\* the step in which process i's load happens, whatever the operation
LoadStep(i) == pc[i] = "load" /\ pc'[i] # "load"

\* the step in which an operation of process i returns normally
ReturnStep(i) ==
    \/ pc[i] # "idle" /\ pc'[i] = "idle" /\ ret'[i].status = "ok"
    \/ /\ pc[i] = "idle" /\ pc' = pc /\ ops' = ops + 1
       /\ ret'[i].op = "remove_all"
       /\ \A j \in Procs \ {i} : ret'[j] = ret[j]

(* -------------------------------- claims ------------------------------- *)

\* C1: last write wins. When a retrieve on the saving instance follows a
\* returned save of a get_entry_to_persist entry, with the store untouched in
\* between and the same (servicePrincipalId, servicePrincipalTenant), it
\* returns the credential of that save, and the store holds exactly one
\* record for the key.
C1_LastWriteWins ==
    [][\A i \in Procs :
        ( /\ RetrieveStep(i)
          /\ justSaved.proc = i
          /\ IsLoginEntry(justSaved.sp_entry)
          /\ justSaved.sp_entry[SERVICE_PRINCIPAL_ID] = call[i].sp_id
          /\ justSaved.sp_entry[SERVICE_PRINCIPAL_TENANT] = call[i].tenant )
        => /\ ret'[i].status = "ok"
           /\ ret'[i].value = CredentialOf(justSaved.sp_entry)
           /\ Cardinality(KeyPositions(Persisted, justSaved.sp_entry)) = 1
      ]_vars

\* C2: no lost update. Once two saves of records for different principals,
\* issued by two processes and running at the same time, have both returned,
\* both records are in the persisted store.
C2_NoLostUpdate ==
    \A i, j \in Procs :
        ( /\ i # j
          /\ pc[i] = "idle" /\ pc[j] = "idle"
          /\ ret[i].op = "save" /\ ret[i].status = "ok"
          /\ ret[j].op = "save" /\ ret[j].status = "ok"
          /\ overlapped[i] /\ overlapped[j]
          /\ ret[i].sp_entry[SERVICE_PRINCIPAL_ID] # ret[j].sp_entry[SERVICE_PRINCIPAL_ID] )
        => /\ In(ret[i].sp_entry, Persisted)
           /\ In(ret[j].sp_entry, Persisted)

\* a save of the entry row names has returned, directly after an identical
\* save of the same instance returned, nothing else having run in between
SecondSaveReturned == row.proc # "none" /\ row.calls = 2 /\ ~row.busy

\* C3, as the claim states it: two identical saves in a row make exactly one
\* backend save call in total, and the second makes none.
C3_ExactlyOneWrite ==
    SecondSaveReturned => row.w = 0 /\ row.prev_w + row.w = 1

\* C3, amended: the second of two identical saves in a row makes no backend
\* save call; the first makes one when it found no record with the entry's
\* key, and at most one otherwise.
C3_SecondSaveWritesNothing ==
    SecondSaveReturned =>
        /\ row.w = 0
        /\ row.prev_w <= 1
        /\ ~row.prev_had => row.prev_w = 1

\* C3 witness: the second identical save returned after a first that wrote
C3_Witness == SecondSaveReturned /\ row.prev_w = 1 /\ ~row.prev_had

\* C4: a retrieve for a principal that a returned remove_cached_creds
\* removed, no save for that principal having started since, raises the
\* not-logged-in error, whatever the tenant.
C4_RemovedThenNotLoggedIn ==
    [][\A i \in Procs :
        (RetrieveStep(i) /\ removed[call[i].sp_id]) => ret'[i].status = "CLIError"
      ]_vars

\* C5: a retrieve on a freshly constructed instance, for the key of the save
\* that returned last (the store untouched since), returns the credential
\* that save was given.
C5_RoundTripAcrossRestart ==
    [][\A i \in Procs :
        ( /\ RetrieveStep(i)
          /\ fresh[i]
          /\ justSaved.proc # "none"
          /\ IsLoginEntry(justSaved.sp_entry)
          /\ justSaved.sp_entry[SERVICE_PRINCIPAL_ID] = call[i].sp_id
          /\ justSaved.sp_entry[SERVICE_PRINCIPAL_TENANT] = call[i].tenant )
        => /\ ret'[i].status = "ok"
           /\ ret'[i].value = CredentialOf(justSaved.sp_entry)
      ]_vars

\* positions, in the list a retrieve worked on, of the records with its
\* principal id, and of those that also have its tenant
IdPositions(i) ==
    {k \in 1..Len(service_principal_creds[i]) :
        service_principal_creds[i][k][SERVICE_PRINCIPAL_ID] = ret[i].sp_id}
TenantPositions(i) ==
    {k \in IdPositions(i) :
        service_principal_creds[i][k][SERVICE_PRINCIPAL_TENANT] = ret[i].tenant}
First(S) == CHOOSE k \in S : \A m \in S : k <= m

\* the retrieve of process i handed out the credential of the record at k
Returned(i, k) ==
    /\ ret[i].status = "ok"
    /\ WellShaped(service_principal_creds[i][k])
       => ret[i].value = CredentialOf(service_principal_creds[i][k])

\* C6: tenant selection. A retrieve raises the not-logged-in error exactly
\* when no record of the list it loaded has its principal id; it returns,
\* without warning, the credential of the record with its principal id and
\* tenant when there is one; otherwise it returns, with the cross-tenant
\* warning, the credential of the first record with its principal id.
C6_TenantSelection ==
    \A i \in Procs :
        ret[i].op = "retrieve" =>
            /\ IdPositions(i) = {} => ret[i].status = "CLIError"
            /\ TenantPositions(i) # {} =>
                   Returned(i, First(TenantPositions(i))) /\ ~ret[i].warned
            /\ (IdPositions(i) # {} /\ TenantPositions(i) = {}) =>
                   Returned(i, First(IdPositions(i))) /\ ret[i].warned

\* C6 witness: a cross-tenant fallback among two records of the principal
C6_Witness ==
    \E i \in Procs :
        /\ ret[i].op = "retrieve" /\ ret[i].warned
        /\ Cardinality(IdPositions(i)) = 2
        /\ CredentialOf(service_principal_creds[i][1]) # CredentialOf(service_principal_creds[i][2])

\* C7: an operation that loads while the artifact is absent works on the
\* empty record sequence: its retrieve raises the not-logged-in error, its
\* save leaves exactly the saved record to persist, its remove finds nothing.
C7_AbsentMeansEmpty ==
    [][\A i \in Procs :
        (LoadStep(i) /\ ~token_file.exists) =>
            /\ call[i].op = "retrieve" => ret'[i].status = "CLIError"
            /\ call[i].op = "save" => service_principal_creds'[i] = <<call[i].sp_entry>>
            /\ call[i].op = "remove" => service_principal_creds'[i] = <<>>
      ]_vars

\* C8: key uniqueness. Neither the persisted record sequence nor any
\* instance's in-memory list holds two records with the same
\* (servicePrincipalId, servicePrincipalTenant).
C8_KeyUniqueness ==
    /\ UniqueKeys(Persisted)
    /\ \A i \in Procs : UniqueKeys(service_principal_creds[i])

\* C8 witness: a save replaced the record of its key in a store of two
C8_Witness ==
    /\ row.proc # "none" /\ ~row.busy /\ row.had /\ row.w = 1
    /\ Len(Persisted) >= 2
    /\ Len(service_principal_creds[row.proc]) >= 2

\* C9: record shape. Every record held, persisted or in memory, has exactly
\* one of secret / certificateFile populated, and a retrieve that returns
\* never returns an empty credential.
C9_RecordShape ==
    /\ \A k \in 1..Len(Persisted) : WellShaped(Persisted[k])
    /\ \A i \in Procs :
        /\ \A k \in 1..Len(service_principal_creds[i]) :
               WellShaped(service_principal_creds[i][k])
        /\ (ret[i].op = "retrieve" /\ ret[i].status = "ok") => Truthy(ret[i].value)

\* a JSON array of flat objects: every element a set of members with
\* distinct names
IsJsonArray(data) ==
    \A k \in 1..Len(data) :
        \A m, n \in data[k] : m[1] = n[1] => m = n

\* C10: the artifact, when present, is a JSON array of records, and when an
\* operation returns on an instance the artifact holds that instance's full
\* record sequence (an absent artifact standing for the empty sequence).
C10_PersistedIsMemory ==
    [][/\ token_file'.exists => IsJsonArray(token_file'.data)
       /\ \A i \in Procs :
            ReturnStep(i) =>
                IF token_file'.exists
                THEN json_loads(token_file'.data) = service_principal_creds'[i]
                ELSE service_principal_creds'[i] = <<>>
      ]_vars

\* the step in which process i runs remove_all_cached_creds
RemoveAllStep(i) ==
    /\ pc[i] = "idle" /\ pc' = pc /\ ops' = ops + 1
    /\ ret'[i].op = "remove_all"
    /\ \A j \in Procs \ {i} : ret'[j] = ret[j]

\* C11: remove_all_cached_creds leaves the artifact absent, and on an artifact
\* that is missing (never created, or removed before) it completes without
\* raising, so any number of calls in a row succeed and leave it absent.
C11_RemoveAllOnMissing ==
    [][\A i \in Procs :
        RemoveAllStep(i) =>
            /\ ~token_file'.exists
            /\ ~token_file.exists => ret'[i].status = "ok"
      ]_vars

\* C11 witness: one remove_all deleted the artifact, another ran on the
\* missing artifact, and the artifact is absent
C11_Witness ==
    \E i, j \in Procs :
        /\ ret[i].op = "remove_all" /\ ret[i].found
        /\ ret[j].op = "remove_all" /\ ~ret[j].found /\ ret[j].status = "ok"
        /\ ~token_file.exists

\* the broker answered with an error payload
Refused(b) == b.calls > 0 /\ "error" \in DOMAIN b.result

\* C12: when the broker answers login_with_service_principal with an error
\* payload, the call raises the authentication error having called the broker
\* once, no save begins, and the artifact and every in-memory list stay as
\* they were; a save begun by a login follows one accepted broker answer.
C12_RefusedLoginLeavesStore ==
    [][\A i \in Procs :
        /\ (broker'[i] # broker[i] /\ Refused(broker'[i])) =>
               /\ broker'[i].calls = 1
               /\ ret'[i].op = "login" /\ ret'[i].status = "AuthenticationError"
               /\ pc'[i] = "idle" /\ call'[i] = NoCall /\ lock' = lock
               /\ token_file' = token_file
               /\ service_principal_creds' = service_principal_creds
        /\ (call'[i].op = "save" /\ call[i].op # "save") =>
               /\ broker'[i].calls = 1
               /\ ~Refused(broker'[i])
      ]_vars

\* C12 witness: a login was refused on an instance whose store holds a record
C12_Witness ==
    \E i \in Procs :
        /\ Refused(broker[i])
        /\ ret[i].op = "login" /\ ret[i].status = "AuthenticationError"
        /\ token_file.exists
        /\ service_principal_creds[i] # <<>>

\* C13: logout_all is best effort. Whatever removals fail, it attempts the
\* removal of every account get_accounts returned, it clears the Secret
\* Store, and its outcome tells full success from anything less.
C13_LogoutAllBestEffort ==
    \A i \in Procs :
        ret[i].op = "logout_all" =>
            /\ ret[i].attempted = ret[i].accounts
            /\ ret[i].cleared
            /\ IF \A k \in 1..Len(ret[i].accounts) : ret[i].accounts[k] \notin ret[i].failing
               THEN ret[i].status = "ok"
               ELSE ret[i].status # "ok" \/ ret[i].value = FALSE

\* an entry migrate_tokens can migrate: a service-principal entry with its
\* id and tenant, or a user entry with its authority, resource and a refresh
\* token the broker accepts
ValidEntry(entry) ==
    IF "userId" \in DOMAIN entry
    THEN /\ {"_authority", "resource", "refreshToken"} \subseteq DOMAIN entry
         /\ "error" \notin DOMAIN acquire_token_by_refresh_token(entry["refreshToken"])
    ELSE {SERVICE_PRINCIPAL_ID, SERVICE_PRINCIPAL_TENANT} \subseteq DOMAIN entry

\* C14: migrate_tokens never raises, whatever the legacy cache holds or
\* whether it exists; it processes every entry, and it migrates every valid
\* one.
C14_MigrationIsolatesFailures ==
    \A i \in Procs :
        ret[i].op = "migrate_tokens" =>
            LET entries == load_tokens_from_file(ret[i].adal)
            IN  /\ ret[i].status = "ok"
                /\ Len(ret[i].outcomes) = Len(entries)
                /\ \A k \in 1..Len(entries) :
                       ValidEntry(entries[k]) =>
                           /\ k <= Len(ret[i].outcomes)
                           /\ ret[i].outcomes[k] = "migrated"

\* the step in which process i runs get_environment_credential
GetEnvStep(i) ==
    /\ pc[i] = "idle" /\ pc' = pc /\ ops' = ops + 1
    /\ ret'[i].op = "get_environment_credential"

\* every variable but AZURE_CLIENT_ID is as it was
OnlyClientIdMayChange ==
    /\ DOMAIN environ' \ {AZURE_CLIENT_ID_VAR} = DOMAIN environ \ {AZURE_CLIENT_ID_VAR}
    /\ \A v \in DOMAIN environ \ {AZURE_CLIENT_ID_VAR} : environ'[v] = environ[v]

\* C16, as the claim states it: when AZURE_USERNAME is set and
\* AZURE_CLIENT_ID is unset, AZURE_CLIENT_ID is the CLI's client id
\* afterwards; in every other case the environment is unchanged.
C16_EnvWhenSet ==
    [][\A i \in Procs :
        GetEnvStep(i) =>
            IF /\ AZURE_USERNAME_VAR \in DOMAIN environ
               /\ AZURE_CLIENT_ID_VAR \notin DOMAIN environ
            THEN /\ Get(environ', AZURE_CLIENT_ID_VAR) = AZURE_CLI_CLIENT_ID
                 /\ OnlyClientIdMayChange
            ELSE environ' = environ
      ]_vars

\* C16, amended: when AZURE_USERNAME is set to a non-empty value and
\* AZURE_CLIENT_ID is unset or empty, AZURE_CLIENT_ID is the CLI's client id
\* afterwards and nothing else changed; in every other case the environment
\* is unchanged.
C16_EnvWhenNonEmpty ==
    [][\A i \in Procs :
        GetEnvStep(i) =>
            IF /\ Truthy(Get(environ, AZURE_USERNAME_VAR))
               /\ ~Truthy(Get(environ, AZURE_CLIENT_ID_VAR))
            THEN /\ Get(environ', AZURE_CLIENT_ID_VAR) = AZURE_CLI_CLIENT_ID
                 /\ OnlyClientIdMayChange
            ELSE environ' = environ
      ]_vars

\* C16 witness: get_environment_credential has filled in the client id
C16_Witness ==
    \E i \in Procs :
        /\ ret[i].op = "get_environment_credential"
        /\ Truthy(Get(environ, AZURE_USERNAME_VAR))
        /\ Get(environ, AZURE_CLIENT_ID_VAR) = AZURE_CLI_CLIENT_ID

\* the decision table of the backend, by host: the variant, or "error"
BackendTable(host, available, fallback) ==
    CASE host = Win32 -> "FilePersistenceWithDataProtection"
      [] host = Darwin -> "KeychainPersistence"
      [] host = Linux /\ available -> "LibsecretPersistence"
      [] host = Linux /\ ~available /\ fallback -> "FilePersistence"
      [] host = Linux /\ ~available /\ ~fallback -> "error"
      [] OTHER -> "FilePersistence"

\* the step in which a load or a persist of process i obtains its backend
BuildStep(i) == persistence[i] = None /\ persistence'[i] # None

\* the step in which a load or a persist of process i ends on the exception
\* that left _build_persistence
BuildFailsStep(i) ==
    /\ ret'[i].status = "Exception"
    /\ \/ pc[i] = "idle" /\ pc'[i] = "idle" /\ ops' = ops + 1
       \/ pc[i] = "persist_wait" /\ pc'[i] = "idle"

\* C15: the backend is the one the decision table gives for (platform,
\* secret service available, fallback_to_plaintext): every load and persist
\* obtains exactly the table's variant, and ends on the propagated error,
\* with no backend built and the artifact unwritten, exactly when the table
\* says error (Linux, secret service unavailable, fallback disallowed).
C15_BackendDecisionTable ==
    [][\A i \in Procs :
        LET t == BackendTable(platform, secret_service, fallback_to_plaintext[i])
        IN  /\ BuildStep(i) => t # "error" /\ persistence'[i] = t
            /\ BuildFailsStep(i) =>
                   /\ t = "error"
                   /\ persistence'[i] = None /\ backends'[i] = backends[i]
                   /\ token_file' = token_file
            /\ (t = "error" /\ pc[i] = "persist_wait") => pc'[i] \in {"persist_wait", "idle"}
      ]_vars

\* C15 witness: on Linux without a usable secret service an instance that
\* may not fall back ended an operation on the propagated error
C15_Witness ==
    \E i \in Procs :
        /\ platform = Linux /\ ~secret_service /\ ~fallback_to_plaintext[i]
        /\ ret[i].status = "Exception"
        /\ persistence[i] = None

\* C20: every backend an instance builds during its lifetime, for loads and
\* for saves alike, is of one and the same variant.
C20_OneBackendPerInstance ==
    \A i \in Procs : Cardinality(backends[i]) <= 1

\* C17: within one save_service_principal_cred or remove_cached_creds call
\* the lock, once the call holds it, stays with the call until the call
\* ends: it is held from before the load until after the save.
C17_LockCoversReadModifyWrite ==
    [][\A i \in Procs :
        (call[i].op \in {"save", "remove"} /\ lock = i /\ call'[i] = call[i])
            => lock' = i
      ]_vars

\* the step in which process i's _persist_cached_creds saves or fails to
PersistStep(i) == pc[i] = "persist" /\ pc'[i] = "idle"

\* C18: every access of an operation to the artifact (the load, the save,
\* the delete of remove_all) is made by a process holding the lock, and a
\* process whose operation has returned or raised does not hold it.
C18_AccessUnderLock ==
    [][\A i \in Procs :
        /\ (LoadStep(i) \/ PersistStep(i) \/ RemoveAllStep(i)) => lock = i
        /\ pc'[i] = "idle" => lock' # i
      ]_vars

\* creds without the records of the principal
WithoutPrincipal(creds, user_or_sp) ==
    SelectSeq(creds, LAMBDA x : x[SERVICE_PRINCIPAL_ID] # user_or_sp)

\* C19: remove_cached_creds(user_or_sp) turns the list it loaded into that
\* list without the records of user_or_sp, whatever their tenant, the other
\* records as they were and in their order; when the loaded list has no such
\* record it returns without a backend save, and otherwise what it saves is
\* the list without those records.
C19_RemoveExactlyThePrincipal ==
    [][\A i \in Procs :
        /\ (LoadStep(i) /\ call[i].op = "remove") =>
               LET loaded == load_cached_creds(token_file, service_principal_creds[i])
                   kept == WithoutPrincipal(loaded, call[i].user_or_sp)
               IN  /\ service_principal_creds'[i] = kept
                   /\ token_file' = token_file
                   /\ IF kept = loaded
                      THEN /\ pc'[i] = "idle"
                           /\ ret'[i].status = "ok" /\ ret'[i].writes = 0
                      ELSE pc'[i] = "persist_wait"
        /\ (PersistStep(i) /\ call[i].op = "remove") =>
               /\ WithoutPrincipal(service_principal_creds[i], call[i].user_or_sp)
                      = service_principal_creds[i]
               /\ IF ret'[i].status = "ok"
                  THEN /\ token_file'.exists
                       /\ json_loads(token_file'.data) = service_principal_creds[i]
                  ELSE token_file' = token_file
        /\ (call[i].op = "remove" /\ pc[i] # "load") =>
               service_principal_creds'[i] = service_principal_creds[i]
      ]_vars

\* C19 witness: a remove has dropped the records of its principal under two
\* tenants and kept the record of the other principal, the artifact still
\* holding all three
C19_Witness ==
    \E i \in Procs :
        /\ call[i].op = "remove" /\ pc[i] \in {"persist_wait", "persist"}
        /\ \E k, m \in 1..Len(Persisted) :
               /\ Persisted[k][SERVICE_PRINCIPAL_ID] = call[i].user_or_sp
               /\ Persisted[m][SERVICE_PRINCIPAL_ID] = call[i].user_or_sp
               /\ Persisted[k][SERVICE_PRINCIPAL_TENANT] # Persisted[m][SERVICE_PRINCIPAL_TENANT]
        /\ service_principal_creds[i] = WithoutPrincipal(Persisted, call[i].user_or_sp)
        /\ service_principal_creds[i] # <<>>

\* C21: a save whose backend save raised leaves nothing a retrieve can see.
\* A retrieve of the same instance for the principal of that entry, no save
\* having succeeded since, returns a credential found in the store or raises
\* not-logged-in; it does not return the credential of the entry that was
\* never persisted.
C21_FailedSaveUnobservable ==
    [][\A i \in Procs :
        (/\ RetrieveStep(i)
         /\ failed[i].raised
         /\ call[i].sp_id = failed[i].sp_entry[SERVICE_PRINCIPAL_ID]
         /\ ret'[i].status = "ok")
            => \/ ret'[i].value # CredentialOf(failed[i].sp_entry)
               \/ \E k \in 1..Len(Persisted) :
                      /\ Persisted[k][SERVICE_PRINCIPAL_ID] = call[i].sp_id
                      /\ CredentialOf(Persisted[k]) = ret'[i].value
      ]_vars

\* process i is at a with CrossPlatLock, not yet inside
WaitsForLock(i) == pc[i] \in {"load_wait", "persist_wait"}

\* a step of the operation process i is in can be taken
CanStep(i) ==
    \/ WaitsForLock(i) /\ lock = "free"
    \/ pc[i] \in {"load", "persist"} /\ lock = i

\* C22: with a fair lock, contending processes make progress. No process
\* waits for the lock while holding it; whenever an operation is under way
\* some process can take a step; every operation under way eventually
\* returns or raises; and the lock, when held, is eventually free.
C22_Progress ==
    /\ [](\A i \in Procs : WaitsForLock(i) => lock # i)
    /\ []((\E i \in Procs : pc[i] # "idle") => \E i \in Procs : CanStep(i))
    /\ \A i \in Procs : (pc[i] # "idle") ~> (pc[i] = "idle")
    /\ (lock # "free") ~> (lock = "free")

\* C22 witness: one process is inside its save's persist, holding the lock,
\* while the other waits at the lock for the persist of its own save
C22_Witness ==
    \E i, j \in Procs :
        /\ i # j
        /\ lock = i /\ pc[i] = "persist"
        /\ pc[j] = "persist_wait"

====
